---- MODULE Spec2Model ----
(***************************************************************************)
(* Game Boy CPU core: the register file (src/cpu/registers.rs) and the     *)
(* fetch / decode / execute engine (src/cpu.rs).                           *)
(*                                                                         *)
(* Three specifications share the state:                                   *)
(*   Spec          the engine: repeated calls of CPU::step                 *)
(*   SpecRegisters the register file: pair writes followed by pair reads   *)
(*   SpecFlags     the two From conversions of the flags register          *)
(***************************************************************************)
EXTENDS Integers, FiniteSets, Sequences, TLC

VARIABLES
    registers,        \* CPU.registers : Registers (a, b, c, d, e, f, h, l)
    pc,               \* CPU.pc : u16
    bus,              \* CPU.bus : MemoryBus, the mapped bytes (address -> byte)
    overflow_checks,  \* build profile: is `+` on integers checked (debug) or wrapping (release)
    status,           \* "running", or "panicked" once a panic has unwound the process
    steps,            \* number of calls the driver has made so far
    last              \* record of the last call: its inputs, what it read, its outcome

vars == <<registers, pc, bus, overflow_checks, status, steps, last>>

----------------------------------------------------------------------------
(* Bounds and sample inputs *)

MaxSteps == 3

U8  == 0..255
U16 == 0..65535

None == [tag |-> "None"]

----------------------------------------------------------------------------
(* Integer operations of the source, at their width *)

\* x & y and x | y on unsigned integers, bit by bit from the lowest
RECURSIVE BitAnd(_, _)
BitAnd(x, y) ==
    IF x = 0 \/ y = 0 THEN 0
    ELSE (IF x % 2 = 1 /\ y % 2 = 1 THEN 1 ELSE 0) + 2 * BitAnd(x \div 2, y \div 2)

RECURSIVE BitOr(_, _)
BitOr(x, y) ==
    IF x = 0 THEN y
    ELSE IF y = 0 THEN x
    ELSE (IF x % 2 = 1 \/ y % 2 = 1 THEN 1 ELSE 0) + 2 * BitOr(x \div 2, y \div 2)

\* x << n and x >> n on a w-bit unsigned integer
Shl(x, n, w) == (x * (2 ^ n)) % (2 ^ w)
Shr(x, n)    == x \div (2 ^ n)

\* `as u8`
AsU8(x) == x % 256

\* `bool as u8`
BoolAsU8(b) == IF b THEN 1 ELSE 0

\* u8::overflowing_add
overflowing_add(x, y) == [value |-> (x + y) % 256, did_overflow |-> x + y > 255]

\* u16::wrapping_add
wrapping_add(x, y) == (x + y) % 65536

\* `x + y` on u16: panics under overflow checks when the sum does not fit,
\* wraps otherwise
CheckedAdd16(x, y) ==
    [panics |-> overflow_checks /\ x + y > 65535, value |-> (x + y) % 65536]

----------------------------------------------------------------------------
(* Register file: src/cpu/registers.rs *)

ZERO_FLAG_BYTE_POSITION == 7
SUBTRACT_FLAG_BYTE_POSITION == 6
HALF_CARRY_FLAG_BYTE_POSITION == 5
CARRY_FLAG_BYTE_POSITION == 4

\* struct FlagsRegister
FlagsRegister == [zero : BOOLEAN, subtract : BOOLEAN, half_carry : BOOLEAN, carry : BOOLEAN]

\* as u8_from_FlagsRegister, with the half-carry and carry positions exchanged
u8_from_FlagsRegister_swapped(flag) ==
    BitOr(BitOr(BitOr(Shl(BoolAsU8(flag.zero), ZERO_FLAG_BYTE_POSITION, 8),
                      Shl(BoolAsU8(flag.subtract), SUBTRACT_FLAG_BYTE_POSITION, 8)),
                Shl(BoolAsU8(flag.half_carry), CARRY_FLAG_BYTE_POSITION, 8)),
          Shl(BoolAsU8(flag.carry), HALF_CARRY_FLAG_BYTE_POSITION, 8))

\* impl From<FlagsRegister> for u8
u8_from_FlagsRegister(flag) ==
    BitOr(BitOr(BitOr(Shl(BoolAsU8(flag.zero), ZERO_FLAG_BYTE_POSITION, 8),
                      Shl(BoolAsU8(flag.subtract), SUBTRACT_FLAG_BYTE_POSITION, 8)),
                Shl(BoolAsU8(flag.half_carry), HALF_CARRY_FLAG_BYTE_POSITION, 8)),
          Shl(BoolAsU8(flag.carry), CARRY_FLAG_BYTE_POSITION, 8))

\* impl From<u8> for FlagsRegister
FlagsRegister_from_u8(byte) ==
    [zero       |-> BitAnd(Shr(byte, ZERO_FLAG_BYTE_POSITION), 1) # 0,
     subtract   |-> BitAnd(Shr(byte, SUBTRACT_FLAG_BYTE_POSITION), 1) # 0,
     half_carry |-> BitAnd(Shr(byte, HALF_CARRY_FLAG_BYTE_POSITION), 1) # 0,
     carry      |-> BitAnd(Shr(byte, CARRY_FLAG_BYTE_POSITION), 1) # 0]

\* Registers::get_af; `self.f as u16` goes through the packed byte of the flags
get_af(regs) == BitOr(Shl(regs.a, 8, 16), u8_from_FlagsRegister(regs.f))

\* Registers::set_af
set_af(regs, value) ==
    [regs EXCEPT !.a = AsU8(Shr(BitAnd(value, 65280), 8)),
                 !.c = AsU8(BitAnd(value, 255))]

\* Registers::get_bc
get_bc(regs) == BitOr(Shl(regs.b, 8, 16), regs.c)

\* Registers::set_bc
set_bc(regs, value) ==
    [regs EXCEPT !.b = AsU8(Shr(BitAnd(value, 65280), 8)),
                 !.c = AsU8(BitAnd(value, 255))]

\* Registers::get_de
get_de(regs) == BitOr(Shl(regs.d, 8, 16), regs.e)

\* Registers::set_de
set_de(regs, value) ==
    [regs EXCEPT !.d = AsU8(Shr(BitAnd(value, 65280), 8)),
                 !.e = AsU8(BitAnd(value, 255))]

\* Registers::get_hl
get_hl(regs) == BitOr(Shl(regs.h, 8, 16), regs.l)

\* Registers::set_hl
set_hl(regs, value) ==
    [regs EXCEPT !.h = AsU8(Shr(BitAnd(value, 65280), 8)),
                 !.l = AsU8(BitAnd(value, 255))]

\* The names of the eight registers, and the two a pair is made of
RegisterNames == {"a", "b", "c", "d", "e", "f", "h", "l"}
PairRegisters(op) ==
    CASE op = "set_af" -> {"a", "f"}
      [] op = "set_bc" -> {"b", "c"}
      [] op = "set_de" -> {"d", "e"}
      [] op = "set_hl" -> {"h", "l"}

----------------------------------------------------------------------------
(* Register file driver: a pair write, then a read of the same pair *)

PairValues == {0, 4848, 43981, 65535}     \* 0x0000, 0x12F0, 0xABCD, 0xFFFF

SampleFlags ==
    {[zero |-> FALSE, subtract |-> FALSE, half_carry |-> FALSE, carry |-> FALSE],
     [zero |-> TRUE,  subtract |-> FALSE, half_carry |-> TRUE,  carry |-> FALSE],
     [zero |-> TRUE,  subtract |-> TRUE,  half_carry |-> TRUE,  carry |-> TRUE]}

InitRegisters ==
    /\ registers \in [a : {1}, b : {2}, c : {3}, d : {4}, e : {5},
                      f : SampleFlags, h : {6}, l : {7}]
    /\ pc = 0
    /\ bus = << >>
    /\ overflow_checks = FALSE
    /\ status = "running"
    /\ steps = 0
    /\ last = [op |-> "new"]

CallSetAf ==
    /\ steps < MaxSteps
    /\ \E value \in PairValues :
          /\ registers' = set_af(registers, value)
          /\ last' = [op |-> "set_af", value |-> value, before |-> registers,
                      read_back |-> get_af(set_af(registers, value))]
    /\ steps' = steps + 1
    /\ UNCHANGED <<pc, bus, overflow_checks, status>>

CallSetBc ==
    /\ steps < MaxSteps
    /\ \E value \in PairValues :
          /\ registers' = set_bc(registers, value)
          /\ last' = [op |-> "set_bc", value |-> value, before |-> registers,
                      read_back |-> get_bc(set_bc(registers, value))]
    /\ steps' = steps + 1
    /\ UNCHANGED <<pc, bus, overflow_checks, status>>

CallSetDe ==
    /\ steps < MaxSteps
    /\ \E value \in PairValues :
          /\ registers' = set_de(registers, value)
          /\ last' = [op |-> "set_de", value |-> value, before |-> registers,
                      read_back |-> get_de(set_de(registers, value))]
    /\ steps' = steps + 1
    /\ UNCHANGED <<pc, bus, overflow_checks, status>>

CallSetHl ==
    /\ steps < MaxSteps
    /\ \E value \in PairValues :
          /\ registers' = set_hl(registers, value)
          /\ last' = [op |-> "set_hl", value |-> value, before |-> registers,
                      read_back |-> get_hl(set_hl(registers, value))]
    /\ steps' = steps + 1
    /\ UNCHANGED <<pc, bus, overflow_checks, status>>

NextRegisters == CallSetAf \/ CallSetBc \/ CallSetDe \/ CallSetHl

SpecRegisters == InitRegisters /\ [][NextRegisters]_vars

PairOps == {"set_af", "set_bc", "set_de", "set_hl"}

\* C1: for every pair name, every 16-bit value and every starting register
\* state, writing the value with set_pair and then reading get_pair returns
\* the value written.
PairWriteThenReadReturnsValue ==
    last.op \in PairOps => last.read_back = last.value

\* C2: a pair write leaves every register outside the named pair unchanged
\* (set_af changes only a and f, set_bc only b and c, set_de only d and e,
\* set_hl only h and l).
PairWriteTouchesOnlyItsPair ==
    last.op \in PairOps =>
        \A r \in RegisterNames \ PairRegisters(last.op) : registers[r] = last.before[r]

----------------------------------------------------------------------------
(* Flag conversions driver: each conversion applied to every input *)

InitFlags ==
    /\ registers = [a |-> 1, b |-> 2, c |-> 3, d |-> 4, e |-> 5,
                    f |-> FlagsRegister_from_u8(0), h |-> 6, l |-> 7]
    /\ pc = 0
    /\ bus = << >>
    /\ overflow_checks = FALSE
    /\ status = "running"
    /\ steps = 0
    /\ last = [op |-> "new"]

\* u8::from(flag), and the flags read back from that byte
CallU8From ==
    /\ \E flag \in FlagsRegister :
          last' = [op |-> "u8_from", flag |-> flag,
                   byte |-> u8_from_FlagsRegister(flag),
                   back |-> FlagsRegister_from_u8(u8_from_FlagsRegister(flag))]
    /\ UNCHANGED <<registers, pc, bus, overflow_checks, status, steps>>

\* FlagsRegister::from(x), the byte packed from those flags, and the flags
\* read back from that byte
CallFlagsRegisterFrom ==
    /\ \E x \in U8 :
          last' = [op |-> "flags_from", x |-> x,
                   flags |-> FlagsRegister_from_u8(x),
                   byte |-> u8_from_FlagsRegister(FlagsRegister_from_u8(x)),
                   again |-> FlagsRegister_from_u8(
                                 u8_from_FlagsRegister(FlagsRegister_from_u8(x)))]
    /\ UNCHANGED <<registers, pc, bus, overflow_checks, status, steps>>

NextFlags == CallU8From \/ CallFlagsRegisterFrom

SpecFlags == InitFlags /\ [][NextFlags]_vars

\* bit n of x
Bit(x, n) == (x \div (2 ^ n)) % 2 = 1

\* C3: the flag conversions are lossless on the four flag bits and zero in
\* the low nibble: flags -> byte -> flags gives the same flags, with zero at
\* bit 7, subtract at bit 6, half-carry at bit 5 and carry at bit 4; and
\* byte -> flags -> byte gives the byte with bits 3-0 cleared, so converting
\* once more gives the flags of the original byte.
FlagConversionsLossless ==
    /\ last.op = "u8_from" =>
          /\ last.back = last.flag
          /\ Bit(last.byte, 7) = last.flag.zero
          /\ Bit(last.byte, 6) = last.flag.subtract
          /\ Bit(last.byte, 5) = last.flag.half_carry
          /\ Bit(last.byte, 4) = last.flag.carry
          /\ last.byte % 16 = 0
          /\ last.byte \in U8
    /\ last.op = "flags_from" =>
          /\ last.byte = last.x - (last.x % 16)
          /\ last.again = last.flags

\* a byte with a non-zero low nibble and mixed flag bits (0x5B) was converted
FlagConversionsWitness ==
    /\ last.op = "flags_from"
    /\ last.x = 91
    /\ last.byte = 80
    /\ last.flags = [zero |-> FALSE, subtract |-> TRUE, half_carry |-> FALSE, carry |-> TRUE]

----------------------------------------------------------------------------
(* Collaborators of the engine: the memory device and the decoder *)

\* MemoryBus::read_byte: every address reads as some byte; an address that
\* holds no program byte reads as 0
read_byte(address) == IF address \in DOMAIN bus THEN bus[address] ELSE 0

ADD(target) == [tag |-> "ADD", target |-> target]
JP(test)    == [tag |-> "JP", test |-> test]

\* enum ArithmeticTarget, enum JumpTest: the variants CPU::execute matches on
ArithmeticTarget == {"A", "B", "C", "D", "E", "H", "L"}
JumpTest == {"NotZero", "NotCarry", "Zero", "Carry", "Always"}

\* The base table: ADD A,r at 0x80-0x85 and 0x87, JP cc,nn at 0xC2, 0xCA,
\* 0xD2, 0xDA and JP nn at 0xC3; every other byte is undefined
from_byte_not_prefixed(byte) ==
    CASE byte = 128 -> ADD("B")
      [] byte = 129 -> ADD("C")
      [] byte = 130 -> ADD("D")
      [] byte = 131 -> ADD("E")
      [] byte = 132 -> ADD("H")
      [] byte = 133 -> ADD("L")
      [] byte = 135 -> ADD("A")
      [] byte = 194 -> JP("NotZero")
      [] byte = 195 -> JP("Always")
      [] byte = 202 -> JP("Zero")
      [] byte = 210 -> JP("NotCarry")
      [] byte = 218 -> JP("Carry")
      [] OTHER -> None

\* The secondary table: the add forms at the same bytes, no jump forms;
\* every other byte is undefined
from_byte_prefixed(byte) ==
    CASE byte = 128 -> ADD("B")
      [] byte = 129 -> ADD("C")
      [] byte = 130 -> ADD("D")
      [] byte = 131 -> ADD("E")
      [] byte = 132 -> ADD("H")
      [] byte = 133 -> ADD("L")
      [] byte = 135 -> ADD("A")
      [] OTHER -> None

\* Instruction::from_byte
from_byte(byte, prefixed) ==
    IF prefixed THEN from_byte_prefixed(byte) ELSE from_byte_not_prefixed(byte)

----------------------------------------------------------------------------
(* CPU engine: src/cpu.rs *)

PREFIX_BYTE == 203      \* 0xCB

\* CPU::add: the flags after the add, and the sum; register a is read before
\* the caller stores the sum
add(regs, value) ==
    LET sum == overflowing_add(regs.a, value)
    IN  [registers |->
            [regs EXCEPT !.f = [zero       |-> sum.value = 0,
                                subtract   |-> FALSE,
                                carry      |-> sum.did_overflow,
                                half_carry |-> BitAnd(regs.a, 15) + BitAnd(value, 15) > 15]],
         new_value |-> sum.value]

\* CPU::jump
jump(pc0, should_jump) ==
    IF should_jump
    THEN LET least_address == CheckedAdd16(pc0, 1)
             most_address  == CheckedAdd16(pc0, 2)
         IN  IF least_address.panics
             THEN [outcome |-> "panic_overflow", next_pc |-> pc0, reads |-> {}]
             ELSE IF most_address.panics
             THEN [outcome |-> "panic_overflow", next_pc |-> pc0,
                   reads |-> {least_address.value}]
             ELSE LET least_significant_byte == read_byte(least_address.value)
                      most_significant_byte  == read_byte(most_address.value)
                  IN  [outcome |-> "returned",
                       next_pc |-> BitOr(Shl(most_significant_byte, 8, 16),
                                         least_significant_byte),
                       reads   |-> {least_address.value, most_address.value}]
    ELSE [outcome |-> "returned", next_pc |-> wrapping_add(pc0, 3), reads |-> {}]

\* as execute, with the sum stored into the register the add reads
execute_store_in_source(regs, pc0, instruction) ==
    IF instruction.tag = "ADD"
    THEN IF instruction.target = "C"
         THEN LET value == regs.c
                  sum   == add(regs, value)
              IN  [outcome   |-> "returned",
                   registers |-> [sum.registers EXCEPT !.c = sum.new_value],
                   next_pc   |-> wrapping_add(pc0, 1),
                   reads     |-> {}]
         ELSE [outcome |-> "panic_todo", registers |-> regs, next_pc |-> pc0, reads |-> {}]
    ELSE LET jump_condition ==
                 CASE instruction.test = "NotZero"  -> ~regs.f.zero
                   [] instruction.test = "NotCarry" -> ~regs.f.carry
                   [] instruction.test = "Zero"     -> regs.f.zero
                   [] instruction.test = "Carry"    -> regs.f.carry
                   [] instruction.test = "Always"   -> TRUE
             jumped == jump(pc0, jump_condition)
         IN  [outcome   |-> jumped.outcome,
              registers |-> regs,
              next_pc   |-> jumped.next_pc,
              reads     |-> jumped.reads]

\* CPU::execute: the registers and the next program counter when it returns,
\* the panic when it does not
execute(regs, pc0, instruction) ==
    IF instruction.tag = "ADD"
    THEN IF instruction.target = "C"
         THEN LET value == regs.c
                  sum   == add(regs, value)
              IN  [outcome   |-> "returned",
                   registers |-> [sum.registers EXCEPT !.a = sum.new_value],
                   next_pc   |-> wrapping_add(pc0, 1),
                   reads     |-> {}]
         ELSE [outcome |-> "panic_todo", registers |-> regs, next_pc |-> pc0, reads |-> {}]
    ELSE LET jump_condition ==
                 CASE instruction.test = "NotZero"  -> ~regs.f.zero
                   [] instruction.test = "NotCarry" -> ~regs.f.carry
                   [] instruction.test = "Zero"     -> regs.f.zero
                   [] instruction.test = "Carry"    -> regs.f.carry
                   [] instruction.test = "Always"   -> TRUE
             jumped == jump(pc0, jump_condition)
         IN  [outcome   |-> jumped.outcome,
              registers |-> regs,
              next_pc   |-> jumped.next_pc,
              reads     |-> jumped.reads]

\* CPU::step on the current state: what it fetched and decoded, what it read,
\* and how it ended
step_result ==
    LET first       == read_byte(pc)
        prefixed    == first = PREFIX_BYTE
        second_addr == CheckedAdd16(pc, 1)
    IN  IF prefixed /\ second_addr.panics
        THEN [outcome |-> "panic_overflow", registers |-> registers, next_pc |-> pc,
              reads |-> {pc}, prefixed |-> prefixed, decoder_called |-> FALSE,
              byte |-> first, instruction |-> None]
        ELSE LET instruction_byte == IF prefixed THEN read_byte(second_addr.value) ELSE first
                 fetched     == IF prefixed THEN {pc, second_addr.value} ELSE {pc}
                 instruction == from_byte(instruction_byte, prefixed)
             IN  IF instruction = None
                 THEN [outcome |-> "panic_unknown_instruction", registers |-> registers,
                       next_pc |-> pc, reads |-> fetched, prefixed |-> prefixed,
                       decoder_called |-> TRUE, byte |-> instruction_byte,
                       instruction |-> None]
                 ELSE LET done == execute(registers, pc, instruction)
                      IN  [outcome |-> done.outcome, registers |-> done.registers,
                           next_pc |-> done.next_pc, reads |-> fetched \cup done.reads,
                           prefixed |-> prefixed, decoder_called |-> TRUE,
                           byte |-> instruction_byte, instruction |-> instruction]

\* One call of CPU::step by the driver. A panic unwinds the process: nothing
\* is stored and no later call is made.
step ==
    /\ status = "running"
    /\ steps < MaxSteps
    /\ LET r == step_result
       IN  /\ registers' = r.registers
           /\ pc' = IF r.outcome = "returned" THEN r.next_pc ELSE pc
           /\ status' = IF r.outcome = "returned" THEN "running" ELSE "panicked"
           /\ last' = [op |-> "step", pc |-> pc, before |-> registers,
                       prefixed |-> r.prefixed, decoder_called |-> r.decoder_called,
                       byte |-> r.byte, instruction |-> r.instruction,
                       reads |-> r.reads, outcome |-> r.outcome]
    /\ steps' = steps + 1
    /\ UNCHANGED <<bus, overflow_checks>>

\* Entry addresses, and the bytes the three program cells are drawn from
EntryAddresses == {0, 65534, 65535}
OpcodeBytes  == {128, 129, 130, 131, 132, 133, 135, 194, 195, 202, 210, 218, 203, 0, 255}
OperandLow   == {0, 52, 129, 254, 255}
OperandHigh  == {0, 18, 255}
SampleA      == {0, 1, 15, 58, 255}
SampleC      == {0, 1, 198, 255}

\* A three-byte program loaded at the entry address (wrapping at the top of
\* the address space), the program counter at the entry address
Init ==
    /\ registers \in [a : SampleA, b : {2}, c : SampleC, d : {4}, e : {5},
                      f : [zero : BOOLEAN, subtract : {TRUE}, half_carry : {FALSE},
                           carry : BOOLEAN],
                      h : {6}, l : {7}]
    /\ pc \in EntryAddresses
    /\ \E b0 \in OpcodeBytes, b1 \in OperandLow, b2 \in OperandHigh :
          bus = [address \in {pc, wrapping_add(pc, 1), wrapping_add(pc, 2)} |->
                    IF address = pc THEN b0
                    ELSE IF address = wrapping_add(pc, 1) THEN b1 ELSE b2]
    /\ overflow_checks \in BOOLEAN
    /\ status = "running"
    /\ steps = 0
    /\ last = [op |-> "new"]

Next == step

Spec == Init /\ [][Next]_vars

----------------------------------------------------------------------------
(* Properties of the engine *)

Wrap16(x) == x % 65536

\* the register an add with this target reads
SourceRegister(target) ==
    CASE target = "A" -> "a" [] target = "B" -> "b" [] target = "C" -> "c"
      [] target = "D" -> "d" [] target = "E" -> "e" [] target = "H" -> "h"
      [] target = "L" -> "l"

\* the truth of a jump condition under the given flags
ConditionHolds(test, flags) ==
    \/ test = "Always"
    \/ test = "Zero" /\ flags.zero
    \/ test = "NotZero" /\ ~flags.zero
    \/ test = "Carry" /\ flags.carry
    \/ test = "NotCarry" /\ ~flags.carry

\* C4: when the fetched byte has no defined instruction in the selected
\* table, step returns a decode-failure outcome carrying the byte and the
\* prefixed flag, the process keeps running, and the registers, the flags and
\* the program counter are unchanged.
DecodeFailureIsReturned ==
    (last.op = "step" /\ last.decoder_called /\ last.instruction = None) =>
        /\ last.outcome = "decode_failure"
        /\ status = "running"
        /\ registers = last.before
        /\ pc = last.pc

\* C5: an add whose source register holds value leaves (a + value) mod 256 in
\* register a, carry set iff a + value > 255, zero set iff the new a is 0,
\* subtract cleared, half-carry set iff the low nibbles of the old a and of
\* value sum to more than 0xF, and the program counter advanced by 1.
AddComputesSumAndFlags ==
    (last.op = "step" /\ last.instruction.tag = "ADD") =>
        LET a0    == last.before.a
            value == last.before[SourceRegister(last.instruction.target)]
        IN  /\ last.outcome = "returned"
            /\ registers.a = (a0 + value) % 256
            /\ registers.f.carry = (a0 + value > 255)
            /\ registers.f.zero = (registers.a = 0)
            /\ ~registers.f.subtract
            /\ registers.f.half_carry = ((a0 % 16) + (value % 16) > 15)
            /\ pc = Wrap16(last.pc + 1)

\* C6: a conditional jump at program counter P whose condition is true sets
\* the program counter to (byte at P+2 << 8) | (byte at P+1); one whose
\* condition is false sets it to P + 3.
JumpSetsProgramCounter ==
    (last.op = "step" /\ last.instruction.tag = "JP") =>
        /\ last.outcome = "returned"
        /\ pc = IF ConditionHolds(last.instruction.test, last.before.f)
                THEN read_byte(Wrap16(last.pc + 2)) * 256 + read_byte(Wrap16(last.pc + 1))
                ELSE Wrap16(last.pc + 3)

\* C7: address arithmetic in step wraps modulo 65536 and is never an error:
\* at every program counter the byte after a 0xCB prefix is read at
\* (pc + 1) mod 65536, a taken jump reads its operand bytes at
\* (pc + 1) mod 65536 and (pc + 2) mod 65536, and the step is not stopped by
\* the arithmetic.
AddressArithmeticWraps ==
    last.op = "step" =>
        /\ last.outcome # "panic_overflow"
        /\ read_byte(last.pc) = PREFIX_BYTE => Wrap16(last.pc + 1) \in last.reads
        /\ (/\ last.instruction.tag = "JP"
            /\ ConditionHolds(last.instruction.test, last.before.f)) =>
                {Wrap16(last.pc + 1), Wrap16(last.pc + 2)} \subseteq last.reads

\* C8: every instruction form the decoder produces (an add with any of the
\* seven source registers, a jump with any of the five conditions) executes
\* to completion: step returns with the program counter set and the process
\* keeps running.
EveryInstructionFormCompletes ==
    (last.op = "step" /\ last.decoder_called /\ last.instruction # None) =>
        /\ last.outcome = "returned"
        /\ status = "running"

\* C9: step calls the decoder with prefixed = true and the byte at pc + 1
\* when the byte at pc is 0xCB, and with prefixed = false and the byte at pc
\* otherwise.
PrefixSelectsSecondaryTable ==
    last.op = "step" =>
        LET first == read_byte(last.pc)
        IN  /\ last.decoder_called
            /\ last.prefixed = (first = PREFIX_BYTE)
            /\ last.byte = IF first = PREFIX_BYTE
                           THEN read_byte(Wrap16(last.pc + 1))
                           ELSE first

\* C10: over any sequence of step calls, a step that executes a jump leaves
\* the seven 8-bit registers and the four flags unchanged, a step that
\* executes an add leaves b, c, d, e, h and l unchanged, and neither changes
\* the memory contents.
StepFrame ==
    [][/\ last'.instruction.tag = "JP" => registers' = registers
       /\ last'.instruction.tag = "ADD" =>
              \A r \in {"b", "c", "d", "e", "h", "l"} : registers'[r] = registers[r]
       /\ last'.instruction.tag \in {"JP", "ADD"} => bus' = bus]_vars

\* a second step in a row that executed an add, changing a and the flags,
\* after a first one that returned
StepFrameWitness ==
    /\ steps = 2
    /\ last.op = "step"
    /\ last.instruction.tag = "ADD"
    /\ last.outcome = "returned"
    /\ registers.a # last.before.a
    /\ registers.f # last.before.f
    /\ registers.c = last.before.c

====
